---- MODULE Spec2Model ----
(***************************************************************************)
(* Model of the skycard achievement scanner's analysis core:               *)
(*   - the 30-minute window optimizer (operations/shared/window-analysis), *)
(*   - the record normalizers and airport rankers                          *)
(*     (operations/shared/flight-processing, operations/shared/analysis).  *)
(*                                                                         *)
(* Times are epoch milliseconds in the program.  The model uses offsets    *)
(* from an arbitrary epoch base so that the values stay small; only        *)
(* differences and comparisons of times are ever computed by the code.     *)
(***************************************************************************)
EXTENDS FiniteSets, Integers, Sequences, TLC

VARIABLES
    direction,      \* static type of the entries: "forward" or "backward"
    flights,        \* the input sequence handed to the analysis functions
    now,            \* the value Date.now() returned inside the last call
    op,             \* the function that ran last ("init" before any call)
    getKey,         \* the key extractor the last window search used
    windows,        \* what the last call returned, when it was a window search
    ranking,        \* what the last call returned, when it was a list ranker
    diversity,      \* what the last call returned, when it was
                    \* analyzeDeparturesByDiversity
    raw,            \* a raw provider record (FlightData)
    entry,          \* result of the last normalizer call
    operation,      \* the acquisition entry point that is running
    airports,       \* the airport codes it was called with
    idx,            \* position of the for-loop over the airports (1-based)
    phase,          \* flightsBetweenPairs: "departures" or "arrivals" of a source
    pc,             \* where the running async function is suspended
    attempts,       \* the retry wrapper's attempts counter
    ret,            \* what the retry wrapper returned to its caller
    allFlights,     \* the flights accumulated so far (the result at the end)
    trace,          \* provider requests, responses and sleeps, in order
    inFlight,       \* number of provider requests awaiting their response
    timers,         \* number of sleep timers started and not yet fired
    currentPage,    \* getDepartures: the next page index
    total,          \* getDepartures: page.total of the last response
    currentDelayMs, \* adaptive rate state of flights-between-pairs
    lastRateLimitTime,
    clock,          \* Date.now() of the acquisition run
    aircraftTypes,  \* flightsByTypes: the requested type codes
    requests,       \* one record per requested type: state and result of its fetch
    pending,        \* the limiter's queue: positions not yet started, in order
    started,        \* the positions whose getFlights request was issued, in order
    results,        \* the merged per-type results
    missing,        \* the list of missing types that is reported
    referenceAirport,  \* the reference airport an entry point looked up
    onlyToday       \* airportsByDistance: its onlyToday parameter

analysisVars == <<direction, flights, now, op, getKey, windows, ranking,
                 diversity, raw, entry>>

acquisitionVars == <<operation, airports, idx, phase, pc, attempts, ret,
                    allFlights, trace, inFlight, timers, currentPage, total,
                    currentDelayMs, lastRateLimitTime, clock>>

scannerVars == <<aircraftTypes, requests, pending, started, results, missing,
                 referenceAirport, onlyToday>>

vars == <<analysisVars, acquisitionVars, scannerVars>>

----------------------------------------------------------------------------
(* Bounds and input domains                                                *)

MaxLen == 3                 \* longest generated input list
Undefined == 0 - 3          \* an absent numeric field
NaN == 0 - 2                \* the number NaN; a comparator returning it counts as 0
Minute == 60 * 1000         \* milliseconds per minute

\* the value every falsy extractor result (undefined or "") is modelled by
NoKey == "<none>"

Times == {0, 30 * Minute, 40 * Minute}
Nows == {15 * Minute, 25 * Minute, 60 * Minute}
DestCodes == {"FRA", "MUC", NoKey}
OriginCodes == {"FRA", "MUC"}
Targets == {"HAM", "CPH"}
NoCoordinates == [kind |-> "undefined"]     \* origin.coordinates is undefined
Positions == {[latitude |-> 48], [latitude |-> 60]}

ForwardEntries == [time : Times, destination : DestCodes]
BackwardEntries ==
    [time : Times, target : Targets, origin : {"FRA"},
     coordinates : {[latitude |-> 48]}]

SeqsUpTo(S, n) == UNION {[1..k -> S] : k \in 0..n}

\* four arrivals at HAM: FRA@t0, MUC@t0+5min, MUC@t0+40min, CDG@t0+10min
ScenarioHAM ==
    << [time |-> 0,           target |-> "HAM", origin |-> "FRA",
        coordinates |-> [latitude |-> 50]],
       [time |-> 5 * Minute,  target |-> "HAM", origin |-> "MUC",
        coordinates |-> [latitude |-> 48]],
       [time |-> 40 * Minute, target |-> "HAM", origin |-> "MUC",
        coordinates |-> [latitude |-> 48]],
       [time |-> 10 * Minute, target |-> "HAM", origin |-> "CDG",
        coordinates |-> [latitude |-> 49]] >>

----------------------------------------------------------------------------
(* operations/shared/constants                                             *)

WINDOW_SIZE_MS == 30 * 60 * 1000
DELAY_BETWEEN_CALLS_MS == 2000
EXPONENTIAL_BACKOFF_BASE_MS == 1000
EXPONENTIAL_BACKOFF_MULTIPLIER == 2
MAX_RETRY_ATTEMPTS == 3

----------------------------------------------------------------------------
(* Array.prototype.sort with a comparator                                  *)

\* Infinity, the nextFlightTime of an airport without a future flight; it
\* compares above every time the model generates
Infinity == 1000 * Minute

\* the comparators the analysis functions pass to sort; Infinity - Infinity
\* is NaN, which sort treats as 0
compare(by, a, b) ==
    CASE by = "maxDestinations" -> b.maxDestinations - a.maxDestinations
      [] by = "distance"        ->
            IF a.distance = NaN \/ b.distance = NaN
            THEN 0
            ELSE a.distance - b.distance
      [] by = "time"            -> a.time - b.time
      [] by = "diversity"       ->
            IF b.distinctDestinations # a.distinctDestinations
            THEN b.distinctDestinations - a.distinctDestinations
            ELSE IF a.nextFlightTime = Infinity /\ b.nextFlightTime = Infinity
                 THEN 0
                 ELSE a.nextFlightTime - b.nextFlightTime

\* the sort is stable: an element goes after every element not ordered after it
\* Math.max(...sizes) of a non-empty list of sizes
MaxOfSizes(S) == CHOOSE m \in S : \A x \in S : x <= m

RECURSIVE insertSorted(_, _, _)
insertSorted(by, e, s) ==
    IF s = <<>> THEN <<e>>
    ELSE IF compare(by, s[Len(s)], e) <= 0 THEN Append(s, e)
    ELSE Append(insertSorted(by, e, SubSeq(s, 1, Len(s) - 1)), s[Len(s)])

RECURSIVE sortBy(_, _)
sortBy(by, s) ==
    IF s = <<>> THEN <<>>
    ELSE CHOOSE sorted \in {insertSorted(by, s[Len(s)], front) :
                                front \in {sortBy(by, SubSeq(s, 1, Len(s) - 1))}} : TRUE

----------------------------------------------------------------------------
(* operations/shared/window-analysis.ts                                    *)

\* the extractor applied to an entry; a falsy result is NoKey
getDestinationCode(kf, flight) ==
    CASE kf = "destination.code" -> flight.destination
      [] kf = "target"           -> flight.target
      [] kf = "origin.code"      -> flight.origin

sortedFlightsUnsorted(s) == s

\* line 13: flights.slice().sort((a, b) => a.time - b.time)
sortedFlightsOf(s) == sortBy("time", s)

\* line 24: the start is skipped when it is more than half a window old
tooOldAlways(windowStart, t) == FALSE

tooOld(windowStart, t) == windowStart < t - WINDOW_SIZE_MS \div 2

windowEndHalf(windowStart) == windowStart + WINDOW_SIZE_MS \div 2

windowEndOf(windowStart) == windowStart + WINDOW_SIZE_MS

\* lines 31-44: scan forward from j, stop at the first entry past the end
RECURSIVE windowFlightsFrom(_, _, _)
windowFlightsFrom(sorted, j, windowEnd) ==
    IF j > Len(sorted) THEN <<>>
    ELSE IF sorted[j].time <= windowEnd
         THEN <<sorted[j]>> \o windowFlightsFrom(sorted, j + 1, windowEnd)
         ELSE <<>>

\* lines 37-40: only truthy keys are added to the set
uniqueDestinationsWithFalsy(kf, windowFlights) ==
    {getDestinationCode(kf, windowFlights[k]) : k \in 1..Len(windowFlights)}

uniqueDestinationsOf(kf, windowFlights) ==
    {getDestinationCode(kf, windowFlights[k]) : k \in 1..Len(windowFlights)}
        \ {NoKey}

\* lines 22-44: the window an accepted start i produces
windowAt(sorted, i, kf) ==
    LET windowStart == sorted[i].time
        windowEnd == windowEndOf(windowStart)
        windowFlights == windowFlightsFrom(sorted, i, windowEnd)
    IN  [start |-> windowStart,
         end |-> windowEnd,
         destinations |-> uniqueDestinationsOf(kf, windowFlights),
         flights |-> windowFlights]

\* lines 46-67: acc = [max |-> maxUniqueDestinations, best |-> bestWindows]
updateBestKeepAll(acc, w) ==
    LET size == Cardinality(w.destinations)
    IN  IF size > acc.max
        THEN [max |-> size, best |-> Append(acc.best, w)]
        ELSE IF size = acc.max /\ size > 0
        THEN [max |-> acc.max, best |-> Append(acc.best, w)]
        ELSE acc

updateBestFirstOnly(acc, w) ==
    LET size == Cardinality(w.destinations)
    IN  IF size > acc.max
        THEN [max |-> size, best |-> <<w>>]
        ELSE acc

updateBestWithEmpty(acc, w) ==
    LET size == Cardinality(w.destinations)
    IN  IF size > acc.max
        THEN [max |-> size, best |-> <<w>>]
        ELSE IF size = acc.max
        THEN [max |-> acc.max, best |-> Append(acc.best, w)]
        ELSE acc

updateBest(acc, w) ==
    LET size == Cardinality(w.destinations)
    IN  IF size > acc.max
        THEN [max |-> size, best |-> <<w>>]
        ELSE IF size = acc.max /\ size > 0
        THEN [max |-> acc.max, best |-> Append(acc.best, w)]
        ELSE acc

\* lines 18-68: the outer loop over the starts i, i+1, ...
RECURSIVE bestWindowsFrom(_, _, _, _, _)
bestWindowsFrom(sorted, i, kf, t, acc) ==
    IF i > Len(sorted) THEN acc.best
    ELSE IF tooOld(sorted[i].time, t)
         THEN bestWindowsFrom(sorted, i + 1, kf, t, acc)
         ELSE bestWindowsFrom(sorted, i + 1, kf, t,
                              updateBest(acc, windowAt(sorted, i, kf)))

findOptimalWindows(fl, kf, t) ==
    IF Len(fl) = 0 THEN <<>>
    ELSE bestWindowsFrom(sortedFlightsOf(fl), 1, kf, t,
                         [max |-> 0, best |-> <<>>])

findOptimalForwardWindows(fl, t) == findOptimalWindows(fl, "destination.code", t)

findOptimalBackwardWindowsByOrigin(fl, t) == findOptimalWindows(fl, "origin.code", t)

findOptimalBackwardWindows(fl, t) == findOptimalWindows(fl, "target", t)

----------------------------------------------------------------------------
(* operations/shared/flight-processing.ts: grouping and distance ranking   *)

\* flight.origin.code || "UNKNOWN"
originCodeOrUnknown(flight) ==
    IF flight.origin = NoKey THEN "UNKNOWN" ELSE flight.origin

\* the record groupFlightsByOrigin builds, as the list Object.entries gives:
\* one [code, flights] pair per code in order of first appearance (airport
\* codes are not integer-like keys, so insertion order is kept)
RECURSIVE groupFlightsByOrigin(_)
groupFlightsByOrigin(fl) ==
    IF fl = <<>> THEN <<>>
    ELSE LET grouped == groupFlightsByOrigin(SubSeq(fl, 1, Len(fl) - 1))
             flight == fl[Len(fl)]
             code == originCodeOrUnknown(flight)
         IN  IF \E g \in 1..Len(grouped) : grouped[g].code = code
             THEN [g \in 1..Len(grouped) |->
                      IF grouped[g].code = code
                      THEN [code |-> code,
                            flights |-> Append(grouped[g].flights, flight)]
                      ELSE grouped[g]]
             ELSE Append(grouped, [code |-> code, flights |-> <<flight>>])

\* Entity.getDistanceFrom of the provider library, for points on one meridian:
\* the great-circle distance is proportional to the difference in latitude
getDistanceFrom(a, b) ==
    IF a.latitude >= b.latitude
    THEN a.latitude - b.latitude
    ELSE b.latitude - a.latitude

\* lines 334-357: the records pushed for the groups from g on
RECURSIVE airportDistancesFrom(_, _, _)
airportDistancesFrom(flightsByOrigin, g, originAirport) ==
    IF g > Len(flightsByOrigin) THEN <<>>
    ELSE LET originCode == flightsByOrigin[g].code
             fl == flightsByOrigin[g].flights
             rest == airportDistancesFrom(flightsByOrigin, g + 1, originAirport)
         IN  IF Len(fl) = 0 \/ originCode = "" \/ originCode = "UNKNOWN"
             THEN rest
             ELSE IF fl[1].coordinates = NoCoordinates
             THEN rest
             ELSE << [code |-> originCode,
                      distance |-> getDistanceFrom(originAirport, fl[1].coordinates),
                      flightCount |-> Len(fl)] >> \o rest

analyzeAirportsByDistanceUnsorted(flightsByOrigin, originAirport) ==
    airportDistancesFrom(flightsByOrigin, 1, originAirport)

analyzeAirportsByDistance(flightsByOrigin, originAirport) ==
    sortBy("distance", airportDistancesFrom(flightsByOrigin, 1, originAirport))

----------------------------------------------------------------------------
(* operations/shared/window-analysis.ts: analyzeAllAirports                *)

\* lines 99-116; the whole loop is one synchronous computation, so every
\* Date.now() inside it is taken to return the same t
RECURSIVE airportResultsFrom(_, _, _)
airportResultsFrom(flightsByOrigin, g, t) ==
    IF g > Len(flightsByOrigin) THEN <<>>
    ELSE LET airportFlights == flightsByOrigin[g].flights
             bestWindows == findOptimalBackwardWindows(airportFlights, t)
             rest == airportResultsFrom(flightsByOrigin, g + 1, t)
         IN  IF Len(airportFlights) = 0 THEN rest
             ELSE IF Len(bestWindows) > 0
             THEN << [airportCode |-> flightsByOrigin[g].code,
                      maxDestinations |->
                          MaxOfSizes({Cardinality(bestWindows[k].destinations) :
                                          k \in 1..Len(bestWindows)}),
                      bestWindows |-> bestWindows] >> \o rest
             ELSE rest

analyzeAllAirports(flightsByOrigin, t) ==
    sortBy("maxDestinations", airportResultsFrom(flightsByOrigin, 1, t))

----------------------------------------------------------------------------
(* operations/shared/analysis.ts                                           *)

nextFlightTimeOfAny(fl, t) ==
    LET allFlightsByTime == sortBy("time", fl)
    IN  IF Len(allFlightsByTime) > 0 THEN allFlightsByTime[1].time ELSE Infinity

\* lines 24-29 and 80-85: the earliest time that is not before now
nextFlightTimeOf(fl, t) ==
    LET futureFlights ==
            sortBy("time", SelectSeq(fl, LAMBDA flight : flight.time >= t))
    IN  IF Len(futureFlights) > 0 THEN futureFlights[1].time ELSE Infinity

\* lines 11-43: the records pushed for the groups from g on
RECURSIVE airportDiversitiesFrom(_, _, _)
airportDiversitiesFrom(flightsByOrigin, g, t) ==
    IF g > Len(flightsByOrigin) THEN <<>>
    ELSE LET originCode == flightsByOrigin[g].code
             airportFlights == flightsByOrigin[g].flights
             destinations ==
                 {airportFlights[k].target : k \in 1..Len(airportFlights)} \ {NoKey}
             rest == airportDiversitiesFrom(flightsByOrigin, g + 1, t)
         IN  IF Len(airportFlights) = 0 \/ originCode = "" \/ originCode = "UNKNOWN"
             THEN rest
             ELSE << [code |-> originCode,
                      distinctDestinations |-> Cardinality(destinations),
                      totalFlights |-> Len(airportFlights),
                      nextFlightTime |-> nextFlightTimeOf(airportFlights, t),
                      destinations |-> destinations] >> \o rest

analyzeAirportsByDiversityUnsorted(flightsByOrigin, t) ==
    airportDiversitiesFrom(flightsByOrigin, 1, t)

analyzeAirportsByDiversity(flightsByOrigin, t) ==
    sortBy("diversity", airportDiversitiesFrom(flightsByOrigin, 1, t))

NullResult == [kind |-> "null"]

\* lines 57-94 with the early return on an empty list removed
analyzeDeparturesByDiversityNoGuard(fl, sourceAirport, t) ==
    LET destinations == {fl[k].destination : k \in 1..Len(fl)} \ {NoKey}
    IN  [kind |-> "diversity",
         sourceCode |-> sourceAirport,
         distinctDestinations |-> Cardinality(destinations),
         totalFlights |-> Len(fl),
         nextFlightTime |-> nextFlightTimeOf(fl, t),
         destinations |-> destinations]

analyzeDeparturesByDiversity(fl, sourceAirport, t) ==
    IF Len(fl) = 0 THEN NullResult
    ELSE analyzeDeparturesByDiversityNoGuard(fl, sourceAirport, t)

----------------------------------------------------------------------------
(* operations/shared/flight-processing.ts: the record normalizers          *)

\* a timestamp the provider left null (provider timestamps are >= 0)
Null == 0 - 1
NoTime == [kind |-> "undefined"]        \* apiResponse.time is missing
NoAirport == [kind |-> "undefined"]     \* airport.origin / .destination missing
NoPosition == [kind |-> "undefined"]    \* the airport has no position

\* lines 30-35
statusOf(apiResponse) ==
    IF apiResponse.time # NoTime /\ apiResponse.time.real.departure # Null
    THEN IF apiResponse.time.real.arrival # Null THEN "arrived" ELSE "departed"
    ELSE "scheduled"

\* lines 42-46: a ?? b takes b when a is null or undefined
timeOf(apiResponse) ==
    LET time == apiResponse.time
        seconds ==
            IF time = NoTime THEN 0
            ELSE IF time.real.departure # Null THEN time.real.departure
            ELSE IF time.estimated.departure # Null THEN time.estimated.departure
            ELSE IF time.scheduled.departure # Null THEN time.scheduled.departure
            ELSE 0
    IN  seconds * 1000

\* origin?.code?.iata, destination?.code?.iata; a missing code is NoKey
iataOf(airport) == IF airport = NoAirport THEN NoKey ELSE airport.code

\* lines 51-56: the coordinates are copied when the origin has a position
coordinatesOf(airport) ==
    IF airport = NoAirport THEN NoCoordinates
    ELSE IF airport.position = NoPosition THEN NoCoordinates
    ELSE [latitude |-> airport.position.latitude]

transformToBackwardFlightEntry(apiResponse, targetAirport) ==
    [target |-> targetAirport,
     live |-> apiResponse.live,
     status |-> statusOf(apiResponse),
     time |-> timeOf(apiResponse),
     origin |-> iataOf(apiResponse.airport.origin),
     coordinates |-> coordinatesOf(apiResponse.airport.origin)]

\* lines 69-74: the forward normalizer's own copy of the status expression
forwardStatusOf(apiResponse) ==
    IF apiResponse.time # NoTime /\ apiResponse.time.real.departure # Null
    THEN IF apiResponse.time.real.arrival # Null THEN "arrived" ELSE "departed"
    ELSE "scheduled"

forwardTimeOfScheduledFirst(apiResponse) ==
    LET time == apiResponse.time
        seconds ==
            IF time = NoTime THEN 0
            ELSE IF time.scheduled.departure # Null THEN time.scheduled.departure
            ELSE IF time.estimated.departure # Null THEN time.estimated.departure
            ELSE IF time.real.departure # Null THEN time.real.departure
            ELSE 0
    IN  seconds * 1000

\* lines 80-84: the forward normalizer's own copy of the time expression
forwardTimeOf(apiResponse) ==
    LET time == apiResponse.time
        seconds ==
            IF time = NoTime THEN 0
            ELSE IF time.real.departure # Null THEN time.real.departure
            ELSE IF time.estimated.departure # Null THEN time.estimated.departure
            ELSE IF time.scheduled.departure # Null THEN time.scheduled.departure
            ELSE 0
    IN  seconds * 1000

transformToForwardFlightEntry(apiResponse) ==
    [live |-> apiResponse.live,
     status |-> forwardStatusOf(apiResponse),
     time |-> forwardTimeOf(apiResponse),
     destination |-> iataOf(apiResponse.airport.destination)]

----------------------------------------------------------------------------
(* State machine of the analysis functions: each action is one call        *)

\* the acquisition layer is not running
IdleAcquisition ==
    /\ operation = "none"
    /\ airports = <<>>
    /\ idx = 0
    /\ phase = "none"
    /\ pc = "idle"
    /\ attempts = 0
    /\ ret = <<>>
    /\ allFlights = <<>>
    /\ trace = <<>>
    /\ inFlight = 0
    /\ timers = 0
    /\ currentPage = 0
    /\ total = 0
    /\ currentDelayMs = 0
    /\ lastRateLimitTime = 0
    /\ clock = 0

\* the aircraft type scanner is not running
IdleScanner ==
    /\ aircraftTypes = <<>>
    /\ requests = <<>>
    /\ pending = <<>>
    /\ started = <<>>
    /\ results = <<>>
    /\ missing = <<>>
    /\ referenceAirport = [kind |-> "none"]
    /\ onlyToday = TRUE

\* no analysis function or normalizer is in play
IdleAnalysis ==
    /\ direction = "none"
    /\ flights = <<>>
    /\ now = 0
    /\ op = "init"
    /\ getKey = "none"
    /\ windows = <<>>
    /\ ranking = <<>>
    /\ diversity = [kind |-> "none"]
    /\ raw = [kind |-> "none"]
    /\ entry = [kind |-> "none"]

NoRaw == [kind |-> "none"]
NoEntry == [kind |-> "none"]
NoResult == [kind |-> "none"]

Extractors(d) ==
    IF d = "forward" THEN {"destination.code"} ELSE {"target", "origin.code"}

Init ==
    /\ IdleScanner
    /\ IdleAcquisition
    /\ \/ direction = "forward" /\ flights \in SeqsUpTo(ForwardEntries, MaxLen)
       \/ direction = "backward"
          /\ flights \in SeqsUpTo(BackwardEntries, MaxLen) \cup {ScenarioHAM}
    /\ now = 0
    /\ op = "init"
    /\ getKey = "none"
    /\ windows = <<>>
    /\ ranking = <<>>
    /\ diversity = NoResult
    /\ raw = NoRaw
    /\ entry = NoEntry

FindOptimalWindows ==
    \E kf \in Extractors(direction), t \in Nows :
        /\ op' = "findOptimalWindows"
        /\ getKey' = kf
        /\ now' = t
        /\ windows' = findOptimalWindows(flights, kf, t)
        /\ ranking' = <<>>
        /\ diversity' = NoResult
        /\ UNCHANGED <<direction, flights, raw, entry>>
        /\ UNCHANGED <<acquisitionVars, scannerVars>>

FindOptimalForwardWindows ==
    \E t \in Nows :
        /\ direction = "forward"
        /\ op' = "findOptimalForwardWindows"
        /\ getKey' = "destination.code"
        /\ now' = t
        /\ windows' = findOptimalForwardWindows(flights, t)
        /\ ranking' = <<>>
        /\ diversity' = NoResult
        /\ UNCHANGED <<direction, flights, raw, entry>>
        /\ UNCHANGED <<acquisitionVars, scannerVars>>

FindOptimalBackwardWindows ==
    \E t \in Nows :
        /\ direction = "backward"
        /\ op' = "findOptimalBackwardWindows"
        /\ getKey' = "target"
        /\ now' = t
        /\ windows' = findOptimalBackwardWindows(flights, t)
        /\ ranking' = <<>>
        /\ diversity' = NoResult
        /\ UNCHANGED <<direction, flights, raw, entry>>
        /\ UNCHANGED <<acquisitionVars, scannerVars>>

\* the reference airport the distances are measured from
ReferenceAirport == [latitude |-> 50]

AnalyzeAllAirports ==
    \E t \in Nows :
        /\ direction = "backward"
        /\ op' = "analyzeAllAirports"
        /\ now' = t
        /\ ranking' = analyzeAllAirports(groupFlightsByOrigin(flights), t)
        /\ getKey' = "none"
        /\ windows' = <<>>
        /\ diversity' = NoResult
        /\ UNCHANGED <<direction, flights, raw, entry>>
        /\ UNCHANGED <<acquisitionVars, scannerVars>>

AnalyzeAirportsByDistance ==
    /\ direction = "backward"
    /\ op' = "analyzeAirportsByDistance"
    /\ ranking' = analyzeAirportsByDistance(groupFlightsByOrigin(flights),
                                            ReferenceAirport)
    /\ getKey' = "none"
    /\ windows' = <<>>
    /\ diversity' = NoResult
    /\ UNCHANGED <<direction, flights, now, raw, entry>>
    /\ UNCHANGED <<acquisitionVars, scannerVars>>

AnalyzeAirportsByDiversity ==
    \E t \in Nows :
        /\ direction = "backward"
        /\ op' = "analyzeAirportsByDiversity"
        /\ now' = t
        /\ ranking' = analyzeAirportsByDiversity(groupFlightsByOrigin(flights), t)
        /\ getKey' = "none"
        /\ windows' = <<>>
        /\ diversity' = NoResult
        /\ UNCHANGED <<direction, flights, raw, entry>>
        /\ UNCHANGED <<acquisitionVars, scannerVars>>

AnalyzeDeparturesByDiversity ==
    \E t \in Nows, sourceAirport \in {"HAM"} :
        /\ direction = "forward"
        /\ op' = "analyzeDeparturesByDiversity"
        /\ now' = t
        /\ diversity' = analyzeDeparturesByDiversity(flights, sourceAirport, t)
        /\ getKey' = "none"
        /\ windows' = <<>>
        /\ ranking' = <<>>
        /\ UNCHANGED <<direction, flights, raw, entry>>
        /\ UNCHANGED <<acquisitionVars, scannerVars>>

Next ==
    \/ FindOptimalWindows
    \/ FindOptimalForwardWindows
    \/ FindOptimalBackwardWindows
    \/ AnalyzeAllAirports
    \/ AnalyzeAirportsByDistance
    \/ AnalyzeAirportsByDiversity
    \/ AnalyzeDeparturesByDiversity

Spec == Init /\ [][Next]_vars

----------------------------------------------------------------------------
(* State machine of the rankings alone, over arrivals whose origin code    *)
(* and coordinates may be missing                                          *)

MaxRankLen == 2             \* longest generated input list of the rankings

RankTimes == {0, 40 * Minute}
RankEntries ==
    [time : RankTimes, target : Targets, origin : OriginCodes \cup {NoKey},
     coordinates : Positions \cup {NoCoordinates}]

\* one arrival from each of three origins, at any of the times and positions
RankScenarios ==
    { << [time |-> a, target |-> "HAM", origin |-> "FRA", coordinates |-> p],
         [time |-> b, target |-> "HAM", origin |-> "MUC", coordinates |-> q],
         [time |-> c, target |-> "CPH", origin |-> "CDG", coordinates |-> r] >> :
        <<a, b, c>> \in RankTimes \X RankTimes \X RankTimes,
        <<p, q, r>> \in Positions \X Positions \X Positions }

InitRank ==
    /\ IdleScanner
    /\ IdleAcquisition
    /\ \/ direction = "forward" /\ flights \in SeqsUpTo(ForwardEntries, MaxRankLen)
       \/ direction = "backward"
          /\ flights \in SeqsUpTo(RankEntries, MaxRankLen) \cup RankScenarios
    /\ now = 0
    /\ op = "init"
    /\ getKey = "none"
    /\ windows = <<>>
    /\ ranking = <<>>
    /\ diversity = NoResult
    /\ raw = NoRaw
    /\ entry = NoEntry

NextRank ==
    \/ AnalyzeAllAirports
    \/ AnalyzeAirportsByDistance
    \/ AnalyzeAirportsByDiversity
    \/ AnalyzeDeparturesByDiversity

SpecRank == InitRank /\ [][NextRank]_vars

----------------------------------------------------------------------------
(* State machine of the normalizers: a raw provider record is transformed  *)

RawTimes ==
    {NoTime} \cup
    [scheduled : [departure : {Null, 100}],
     estimated : [departure : {Null, 200}],
     real : [departure : {Null, 300}, arrival : {Null, 400}]]

RawAirports ==
    {NoAirport,
     [code |-> NoKey, position |-> NoPosition],
     [code |-> "FRA", position |-> NoPosition],
     [code |-> "FRA", position |-> [latitude |-> 48]]}

RawRecords ==
    [kind : {"FlightData"}, time : RawTimes, live : BOOLEAN,
     airport : [origin : RawAirports, destination : RawAirports]]

InitNormalize ==
    /\ IdleScanner
    /\ IdleAcquisition
    /\ raw \in RawRecords
    /\ entry = NoEntry
    /\ op = "init"
    /\ direction = "none"
    /\ flights = <<>>
    /\ now = 0
    /\ getKey = "none"
    /\ windows = <<>>
    /\ ranking = <<>>
    /\ diversity = NoResult

TransformToBackwardFlightEntry ==
    \E targetAirport \in Targets :
        /\ op' = "transformToBackwardFlightEntry"
        /\ entry' = transformToBackwardFlightEntry(raw, targetAirport)
        /\ UNCHANGED <<direction, flights, now, getKey, windows, ranking,
                       diversity, raw>>
        /\ UNCHANGED <<acquisitionVars, scannerVars>>

TransformToForwardFlightEntry ==
    /\ op' = "transformToForwardFlightEntry"
    /\ entry' = transformToForwardFlightEntry(raw)
    /\ UNCHANGED <<direction, flights, now, getKey, windows, ranking,
                   diversity, raw>>
    /\ UNCHANGED <<acquisitionVars, scannerVars>>

NextNormalize ==
    \/ TransformToBackwardFlightEntry
    \/ TransformToForwardFlightEntry

SpecNormalize == InitNormalize /\ [][NextNormalize]_vars

----------------------------------------------------------------------------
(* Reference notions the window claims are stated in.  They are defined on *)
(* the unsorted input, by position, and do not use the search's loops.     *)

IsWindowOp ==
    op \in {"findOptimalWindows", "findOptimalForwardWindows",
            "findOptimalBackwardWindows"}

KeyAt(q) == getDestinationCode(getKey, flights[q])

\* entry q is scanned when the search starts at entry p: it is later, or as
\* late and not before p in the input (the order a stable sort by time gives)
ScannedFrom(p, q) ==
    \/ flights[q].time > flights[p].time
    \/ flights[q].time = flights[p].time /\ q >= p

InWindowOf(p, q) ==
    ScannedFrom(p, q) /\ flights[q].time <= flights[p].time + 1800000

ScanKeys(p) == {KeyAt(q) : q \in {r \in 1..Len(flights) : InWindowOf(p, r)}} \ {NoKey}

CandidateStarts == {p \in 1..Len(flights) : flights[p].time >= now - 900000}

MaxOf(S) == IF S = {} THEN 0 ELSE CHOOSE m \in S : \A x \in S : x <= m

MaxDiversity == MaxOf({Cardinality(ScanKeys(p)) : p \in CandidateStarts})

MaximalStarts == {p \in CandidateStarts : Cardinality(ScanKeys(p)) = MaxDiversity}

StartTimes(ws) == {ws[k].start : k \in 1..Len(ws)}

Members(w) == {w.flights[k] : k \in 1..Len(w.flights)}

PermutationsOf(s) ==
    {[i \in 1..Len(s) |-> s[f[i]]] : f \in Permutations(1..Len(s))}

----------------------------------------------------------------------------
(* Claims about findOptimalWindows                                         *)

\* C1: every returned window has as many unique keys as the best candidate
\* start reaches; no candidate start reaches strictly more.
C1_WindowsReachMaximum ==
    IsWindowOp =>
        \A k \in 1..Len(windows) :
            /\ Cardinality(windows[k].destinations) = MaxDiversity
            /\ \A p \in CandidateStarts :
                   Cardinality(ScanKeys(p)) <= Cardinality(windows[k].destinations)

C1_Witness ==
    /\ IsWindowOp
    /\ Len(windows) >= 1
    /\ MaxDiversity >= 2
    /\ \E p \in CandidateStarts : Cardinality(ScanKeys(p)) < MaxDiversity

\* C2: all maximal windows are retained: when the maximum is positive, every
\* candidate start reaching it has a window in the output, and the output has
\* exactly one window per such start.
C2_AllTiesRetained ==
    (IsWindowOp /\ MaxDiversity > 0) =>
        /\ \A p \in MaximalStarts : flights[p].time \in StartTimes(windows)
        /\ Len(windows) = Cardinality(MaximalStarts)

C2_Witness ==
    /\ IsWindowOp
    /\ MaxDiversity > 0
    /\ Cardinality(MaximalStarts) >= 2
    /\ Len(windows) >= 2

C4_PermutationInvariant ==
    IsWindowOp =>
        \A perm \in PermutationsOf(flights) :
            StartTimes(findOptimalWindows(perm, getKey, now)) = StartTimes(windows)

C4_Witness ==
    /\ IsWindowOp
    /\ Len(windows) >= 1
    /\ \E p, q \in 1..Len(flights) :
           /\ p < q
           /\ flights[p].time = flights[q].time
           /\ KeyAt(p) # KeyAt(q)
    /\ \E p, q \in 1..Len(flights) : p < q /\ flights[p].time > flights[q].time

\* C5: every returned window is exactly 1 800 000 ms long and starts at the
\* time of an input entry.
C5_WindowLength ==
    IsWindowOp =>
        \A k \in 1..Len(windows) :
            /\ windows[k].end - windows[k].start = 1800000
            /\ \E p \in 1..Len(flights) : flights[p].time = windows[k].start

C5_Witness == IsWindowOp /\ Len(windows) >= 1

\* C6: a window's unique-key set is exactly the set of present keys of its
\* members; an entry without a key that lies in the scanned part of the window
\* is a member and adds nothing to the key set.
C6_KeysOfMembers ==
    IsWindowOp =>
        \A k \in 1..Len(windows) :
            /\ windows[k].destinations =
                   {getDestinationCode(getKey, e) : e \in Members(windows[k])} \ {NoKey}
            /\ \A q \in 1..Len(flights) :
                   ( /\ KeyAt(q) = NoKey
                     /\ flights[q].time > windows[k].start
                     /\ flights[q].time <= windows[k].end )
                   => flights[q] \in Members(windows[k])

C6_Witness ==
    /\ IsWindowOp
    /\ \E k \in 1..Len(windows) :
           /\ \E e \in Members(windows[k]) : getDestinationCode(getKey, e) = NoKey
           /\ Cardinality(windows[k].destinations) >= 1

\* C7: no returned window has zero unique keys, and when no candidate start
\* scans an entry with a key the output is empty although the input is not.
C7_NoEmptyKeyWindow ==
    IsWindowOp =>
        /\ \A k \in 1..Len(windows) : Cardinality(windows[k].destinations) >= 1
        /\ (\A p \in CandidateStarts : ScanKeys(p) = {}) => windows = <<>>

C7_Witness ==
    /\ IsWindowOp
    /\ Len(flights) >= 1
    /\ CandidateStarts # {}
    /\ \A p \in CandidateStarts : ScanKeys(p) = {}
    /\ windows = <<>>

\* C8: every returned window starts no more than 15 minutes (900 000 ms)
\* before 'now'; an older entry never starts a window.
C8_StartNotTooOld ==
    IsWindowOp =>
        \A k \in 1..Len(windows) : windows[k].start >= now - 900000

C8_Witness ==
    /\ IsWindowOp
    /\ Len(windows) >= 1
    /\ \E p \in 1..Len(flights) :
           /\ flights[p].time < now - 900000
           /\ Cardinality(ScanKeys(p)) > MaxDiversity

----------------------------------------------------------------------------
(* Claims about empty input and about the normalizers                      *)

IsListRanker ==
    op \in {"analyzeAllAirports", "analyzeAirportsByDistance",
            "analyzeAirportsByDiversity"}

\* C9: called with empty input, every window search and every list ranker
\* returns the empty list and analyzeDeparturesByDiversity returns its empty
\* result, null; none of them throws (each has a result).
C9_EmptyInputEmptyResult ==
    (flights = <<>>) =>
        /\ IsWindowOp => windows = <<>>
        /\ IsListRanker => ranking = <<>>
        /\ op = "analyzeDeparturesByDiversity" => diversity = NullResult

C9_Witness ==
    /\ flights = <<>>
    /\ op = "analyzeDeparturesByDiversity"
    /\ diversity = NullResult

\* C10: the normalized status is "arrived" when the real arrival timestamp is
\* present, else "departed" when the real departure timestamp is present,
\* else "scheduled", for both normalizers.
C10_StatusRule ==
    op \in {"transformToBackwardFlightEntry", "transformToForwardFlightEntry"} =>
        entry.status =
            IF raw.time # NoTime /\ raw.time.real.arrival # Null THEN "arrived"
            ELSE IF raw.time # NoTime /\ raw.time.real.departure # Null THEN "departed"
            ELSE "scheduled"

IsNormalizerOp ==
    op \in {"transformToBackwardFlightEntry", "transformToForwardFlightEntry"}

\* the departure timestamps of a raw record in priority order
DepartureTimes(r) ==
    IF r.time = NoTime THEN <<>>
    ELSE <<r.time.real.departure, r.time.estimated.departure,
           r.time.scheduled.departure>>

FirstPresent(s) ==
    LET present == {i \in 1..Len(s) : s[i] # Null}
    IN  IF present = {} THEN 0
        ELSE s[CHOOSE i \in present : \A j \in present : i <= j]

\* C11: the normalized time is 1000 times the first non-null of real,
\* estimated and scheduled departure, 0 when there is none; records that differ
\* only in arrival timestamps get the same time; both normalizers give the
\* same time and status for the same raw record.
C11_TimeRule ==
    IsNormalizerOp =>
        /\ entry.time = 1000 * FirstPresent(DepartureTimes(raw))
        /\ \A r \in RawRecords :
               DepartureTimes(r) = DepartureTimes(raw) =>
                   /\ transformToForwardFlightEntry(r).time = entry.time
                   /\ transformToBackwardFlightEntry(r, "HAM").time = entry.time
        /\ transformToForwardFlightEntry(raw).time
               = transformToBackwardFlightEntry(raw, "HAM").time
        /\ transformToForwardFlightEntry(raw).status
               = transformToBackwardFlightEntry(raw, "HAM").status

C11_Witness ==
    /\ op = "transformToForwardFlightEntry"
    /\ raw.time # NoTime
    /\ raw.time.real.departure = Null
    /\ raw.time.real.arrival # Null
    /\ raw.time.estimated.departure # Null
    /\ raw.time.scheduled.departure # Null
    /\ entry.time = 1000 * raw.time.estimated.departure

\* ---------------------------------------------------------------------------
\* Paginated departures fetch: getDepartures, in its simple variant
\* (get-departures.ts) and its hardened variant (airports-of-countries.ts).
\* A run is a chain of synchronous segments separated by awaits; what a segment
\* does is one action.  The provider answers a page request with page.total and
\* a list of schedule items, or rejects it.

MaxTotal == 2

PageVariants == {"getDepartures", "getDeparturesHardened"}

\* schedule items the provider can put on page p (each wraps one flight)
PageData(p) ==
    { <<>>,
      <<[flight |-> [page |-> p, n |-> 1]]>>,
      <<[flight |-> [page |-> p, n |-> 1]], [flight |-> [page |-> p, n |-> 2]]>> }

RECURSIVE flightsOfData(_)
\* data.map((a) => a.flight)
flightsOfData(data) ==
    IF data = <<>> THEN <<>>
    ELSE <<Head(data).flight>> \o flightsOfData(Tail(data))

continuePagingStrict(page, tot) == page < tot

\* the do-while condition
continuePaging(page, tot) == page <= tot

requestEvent(p) == [type |-> "request", page |-> p]

sleepStartEvent(ms) == [type |-> "sleepStart", ms |-> ms]

sleepEndEvent == [type |-> "sleepEnd"]

UnusedByPages ==
    UNCHANGED <<analysisVars, airports, idx, phase, attempts, ret,
                currentDelayMs, lastRateLimitTime, clock,
                scannerVars>>

InitPages ==
    /\ IdleScanner
    /\ IdleAnalysis
    /\ operation \in PageVariants
    /\ airports \in {<<"FRA">>, <<"MUC">>}
    /\ idx = 0
    /\ phase = "none"
    /\ pc = "start"
    /\ attempts = 0
    /\ ret = <<>>
    /\ allFlights = <<>>
    /\ trace = <<>>
    /\ inFlight = 0
    /\ timers = 0
    /\ currentPage = 0
    /\ total = 0
    /\ currentDelayMs = 0
    /\ lastRateLimitTime = 0
    /\ clock = 0

\* entry: the locals are initialised and the first page is requested
GetDeparturesStart ==
    /\ pc = "start"
    /\ currentPage' = 0
    /\ total' = 0
    /\ allFlights' = <<>>
    /\ trace' = Append(trace, requestEvent(0))
    /\ inFlight' = inFlight + 1
    /\ pc' = "awaitPage"
    /\ UNCHANGED <<operation, timers>>
    /\ UnusedByPages

\* api.getAirportDetails resolves: the rest of the loop body, the loop
\* condition, and either the next request or the return
GetDeparturesPageResolves ==
    /\ pc = "awaitPage"
    /\ \E t \in 0..MaxTotal, data \in PageData(currentPage) :
          LET nextPage == currentPage + 1
              sleeps == operation = "getDeparturesHardened" /\ nextPage <= t
              afterBody ==
                  IF sleeps
                  THEN <<[type |-> "response", page |-> currentPage, total |-> t, data |-> data],
                         sleepStartEvent(DELAY_BETWEEN_CALLS_MS)>>
                  ELSE <<[type |-> "response", page |-> currentPage, total |-> t, data |-> data]>>
          IN /\ total' = t
             /\ allFlights' = allFlights \o flightsOfData(data)
             /\ currentPage' = nextPage
             /\ timers' = IF sleeps THEN timers + 1 ELSE timers
             /\ IF continuePaging(nextPage, t)
                THEN /\ trace' = trace \o afterBody \o <<requestEvent(nextPage)>>
                     /\ inFlight' = inFlight
                     /\ pc' = "awaitPage"
                ELSE /\ trace' = trace \o afterBody
                     /\ inFlight' = inFlight - 1
                     /\ pc' = "returned"
    /\ UNCHANGED operation
    /\ UnusedByPages

\* api.getAirportDetails rejects: nothing catches it, the call throws
GetDeparturesPageRejects ==
    /\ pc = "awaitPage"
    /\ trace' = Append(trace, [type |-> "rejected", page |-> currentPage])
    /\ inFlight' = inFlight - 1
    /\ pc' = "threw"
    /\ UNCHANGED <<operation, allFlights, timers, currentPage, total>>
    /\ UnusedByPages

\* a timer started by sleep() fires
TimerFires ==
    /\ timers > 0
    /\ timers' = timers - 1
    /\ trace' = Append(trace, sleepEndEvent)
    /\ UNCHANGED <<operation, allFlights, inFlight, pc, currentPage, total>>
    /\ UnusedByPages

NextPages ==
    \/ GetDeparturesStart
    \/ GetDeparturesPageResolves
    \/ GetDeparturesPageRejects
    \/ TimerFires

SpecPages == InitPages /\ [][NextPages]_vars

\* ---------------------------------------------------------------------------
\* Acquisition with retry: fetchArrivalsWithRetry / fetchDeparturesWithRetry and
\* their callers fetchAllArrivals and flightsBetweenPairs, and fowardLookup,
\* which calls fetchDepartures directly.  The underlying fetch (getArrivals,
\* getDepartures) is one provider exchange here: it resolves with a list of raw
\* flights or rejects with an error.

MaxAirports == 2

RATE_LIMIT_COOLDOWN_MS == 30000

DELAY_CAP_MS == 10000

\* currentDelayMs is a floating-point number of milliseconds; it is kept here
\* in units of 1/Fraction ms, which is exact as long as no more than five
\* decimal places are needed
Fraction == 10 ^ 5

\* Date.now() at the start of a run; lastRateLimitTime = 0 is long before it
ClockStart == 100 * 1000

AirportCodes == {"HAM", "CPH"}

FetchOperations == {"fetchAllArrivals", "flightsBetweenPairs", "fowardLookup"}

RateLimitErrors == {"Error: 429 Too Many Requests"}

OtherErrors == {"Error: 500 Internal Server Error"}

includes429Always(error) == TRUE

\* String(error).includes("429")
includes429(error) == error \in RateLimitErrors

SampleFlight(n) ==
    [kind |-> "FlightData",
     time |-> [scheduled |-> [departure |-> 100 * n],
               estimated |-> [departure |-> Null],
               real |-> [departure |-> Null, arrival |-> Null]],
     live |-> FALSE,
     airport |-> [origin |-> [code |-> "FRA", position |-> NoPosition],
                  destination |-> [code |-> "MUC", position |-> NoPosition]]]

\* what a successful underlying fetch can resolve with
FetchPayloads == {<<>>, <<SampleFlight(1), SampleFlight(2)>>}

RECURSIVE mapBackward(_, _)
\* flights.map((f) => transformToBackwardFlightEntry(f, airport))
mapBackward(fl, airport) ==
    IF fl = <<>> THEN <<>>
    ELSE <<transformToBackwardFlightEntry(Head(fl), airport)>>
         \o mapBackward(Tail(fl), airport)

RECURSIVE mapForward(_)
\* flights.map(transformToForwardFlightEntry)
mapForward(fl) ==
    IF fl = <<>> THEN <<>>
    ELSE <<transformToForwardFlightEntry(Head(fl))>> \o mapForward(Tail(fl))

mapFlights(kind, fl, airport) ==
    IF kind = "arrivals" THEN mapBackward(fl, airport) ELSE mapForward(fl)

shouldAttemptOnceMore(n) == n <= MAX_RETRY_ATTEMPTS

\* the while condition of the retry wrappers
shouldAttempt(n) == n < MAX_RETRY_ATTEMPTS

backoffDelayMsFlat(n) == EXPONENTIAL_BACKOFF_BASE_MS

\* delayMs after the n-th failed attempt
backoffDelayMs(n) ==
    EXPONENTIAL_BACKOFF_BASE_MS * EXPONENTIAL_BACKOFF_MULTIPLIER ^ (n - 1)

pushAllFront(all, fl) == fl \o all

\* allFlights.push(...flights)
pushAll(all, fl) == all \o fl

Min(a, b) == IF a <= b THEN a ELSE b

Max(a, b) == IF a >= b THEN a ELSE b

getAdaptiveDelayNoFloor(delay, last, t) ==
    IF t - last < RATE_LIMIT_COOLDOWN_MS
    THEN Min(delay + delay \div 2, DELAY_CAP_MS * Fraction)
    ELSE delay - delay \div 10

\* the new currentDelayMs, which getAdaptiveDelay also returns: times 1.5 up
\* to the cap within the cooldown, times 0.9 down to the floor after it
getAdaptiveDelay(delay, last, t) ==
    IF t - last < RATE_LIMIT_COOLDOWN_MS
    THEN Min(delay + delay \div 2, DELAY_CAP_MS * Fraction)
    ELSE Max(delay - delay \div 10, DELAY_BETWEEN_CALLS_MS * Fraction)

recordRateLimitHalved(delay) == Min(delay \div 2, DELAY_CAP_MS * Fraction)

\* the new currentDelayMs after recordRateLimit
recordRateLimit(delay) == Min(delay * 2, DELAY_CAP_MS * Fraction)

callEvent(kind, airport) == [type |-> "call", fetch |-> kind, airport |-> airport]

returnEvent(kind, airport, value) ==
    [type |-> "return", fetch |-> kind, airport |-> airport, value |-> value]

UnusedByFetch == UNCHANGED <<analysisVars, operation, airports, currentPage, total, scannerVars>>

\* What the caller does when the retry wrapper has settled, up to its next
\* await or its return: outcome.threw tells whether the wrapper threw, tr is
\* the trace so far, tm the number of pending timers and t the time.
WrapperSettles(kind, outcome, tr, tm, t) ==
    LET airport == airports[idx']
        value == IF outcome.threw THEN <<>> ELSE outcome.value
        settled == Append(tr, returnEvent(kind, airport, value))
    IN  /\ ret' = value
        /\ IF operation = "fetchAllArrivals"
           THEN IF outcome.threw
                THEN /\ pc' = "threw"
                     /\ trace' = tr
                     /\ timers' = tm
                     /\ UNCHANGED <<allFlights, currentDelayMs, lastRateLimitTime>>
                ELSE /\ allFlights' = pushAll(allFlights, value)
                     /\ trace' = Append(settled, sleepStartEvent(DELAY_BETWEEN_CALLS_MS))
                     /\ timers' = tm + 1
                     /\ pc' = "awaitDelay"
                     /\ UNCHANGED <<currentDelayMs, lastRateLimitTime>>
           ELSE LET recorded == outcome.threw /\ includes429(outcome.error)
                    delay0 == IF recorded THEN recordRateLimit(currentDelayMs)
                              ELSE currentDelayMs
                    last0 == IF recorded THEN t ELSE lastRateLimitTime
                    adaptiveDelay == getAdaptiveDelay(delay0, last0, t)
                IN  /\ allFlights' = pushAll(allFlights, value)
                    /\ lastRateLimitTime' = last0
                    /\ IF kind = "departures" \/ idx' # Len(airports)
                       THEN /\ currentDelayMs' = adaptiveDelay
                            /\ trace' = Append(settled, sleepStartEvent(adaptiveDelay \div Fraction))
                            /\ timers' = tm + 1
                            /\ pc' = IF kind = "departures" THEN "awaitAdaptive"
                                     ELSE "awaitFinal"
                       ELSE /\ currentDelayMs' = delay0
                            /\ trace' = settled
                            /\ timers' = tm
                            /\ pc' = "returned"

\* The head of the wrapper's while loop with the counter at n: one more call
\* of the underlying fetch, or the return of an empty list.
RetryLoop(kind, n, tr, tm, t) ==
    /\ attempts' = n
    /\ phase' = kind
    /\ IF shouldAttempt(n)
       THEN /\ trace' = Append(tr, callEvent(kind, airports[idx']))
            /\ inFlight' = inFlight + 1
            /\ pc' = "awaitFetch"
            /\ timers' = tm
            /\ UNCHANGED <<ret, allFlights, currentDelayMs, lastRateLimitTime>>
       ELSE /\ inFlight' = inFlight
            /\ WrapperSettles(kind, [threw |-> FALSE, value |-> <<>>], tr, tm, t)

NoDuplicates(s) == \A i, j \in 1..Len(s) : s[i] = s[j] => i = j

InitFetch ==
    /\ IdleScanner
    /\ IdleAnalysis
    /\ operation \in FetchOperations
    /\ airports \in SeqsUpTo(AirportCodes, MaxAirports)
    /\ operation = "flightsBetweenPairs" => NoDuplicates(airports)
    /\ operation = "fowardLookup" => Len(airports) = 1
    /\ idx = 0
    /\ phase = "none"
    /\ pc = "start"
    /\ attempts = 0
    /\ ret = <<>>
    /\ allFlights = <<>>
    /\ trace = <<>>
    /\ inFlight = 0
    /\ timers = 0
    /\ currentPage = 0
    /\ total = 0
    /\ currentDelayMs = DELAY_BETWEEN_CALLS_MS * Fraction
    /\ lastRateLimitTime = 0
    /\ clock = ClockStart

\* fetchAllArrivals is called: the first airport's wrapper makes its first call
FetchAllArrivalsStart ==
    /\ operation = "fetchAllArrivals"
    /\ pc = "start"
    /\ clock' = clock
    /\ IF airports = <<>>
       THEN /\ pc' = "returned"
            /\ UNCHANGED <<idx, phase, attempts, ret, allFlights, trace, inFlight,
                           timers, currentDelayMs, lastRateLimitTime>>
       ELSE /\ idx' = 1
            /\ RetryLoop("arrivals", 0, trace, timers, clock)
    /\ UnusedByFetch

\* flightsBetweenPairs is called: the first source's departures are fetched
FlightsBetweenPairsStart ==
    /\ operation = "flightsBetweenPairs"
    /\ pc = "start"
    /\ clock' = clock
    /\ IF airports = <<>>
       THEN /\ pc' = "returned"
            /\ UNCHANGED <<idx, phase, attempts, ret, allFlights, trace, inFlight,
                           timers, currentDelayMs, lastRateLimitTime>>
       ELSE /\ idx' = 1
            /\ RetryLoop("departures", 0, trace, timers, clock)
    /\ UnusedByFetch

\* the underlying fetch resolves: the wrapper returns the transformed flights
FetchResolves ==
    /\ pc = "awaitFetch"
    /\ idx' = idx
    /\ \E data \in FetchPayloads :
          WrapperSettles(phase,
                         [threw |-> FALSE,
                          value |-> mapFlights(phase, data, airports[idx])],
                         Append(trace, [type |-> "response", data |-> data]),
                         timers, clock)
    /\ inFlight' = inFlight - 1
    /\ UNCHANGED <<phase, attempts, clock>>
    /\ UnusedByFetch

\* the underlying fetch rejects: the wrapper's catch block
FetchRejects ==
    /\ pc = "awaitFetch"
    /\ idx' = idx
    /\ \E error \in RateLimitErrors \cup OtherErrors :
          LET rejected == Append(trace, [type |-> "rejected", error |-> error])
          IN  IF includes429(error)
              THEN /\ trace' = Append(rejected, sleepStartEvent(backoffDelayMs(attempts + 1)))
                   /\ timers' = timers + 1
                   /\ pc' = "awaitBackoff"
                   /\ UNCHANGED <<ret, allFlights, currentDelayMs, lastRateLimitTime>>
              ELSE WrapperSettles(phase, [threw |-> FALSE, value |-> <<>>],
                                  rejected, timers, clock)
    /\ attempts' = attempts + 1
    /\ inFlight' = inFlight - 1
    /\ UNCHANGED <<phase, clock>>
    /\ UnusedByFetch

\* the backoff sleep is over: back to the head of the while loop
BackoffElapsed ==
    /\ pc = "awaitBackoff"
    /\ idx' = idx
    /\ clock' = clock + trace[Len(trace)].ms
    /\ RetryLoop(phase, attempts, Append(trace, sleepEndEvent), timers - 1, clock')
    /\ UnusedByFetch

\* fetchAllArrivals: the inter-airport sleep is over; the next airport, or
\* the return of allFlights
DelayElapsed ==
    /\ pc = "awaitDelay"
    /\ clock' = clock + trace[Len(trace)].ms
    /\ IF idx < Len(airports)
       THEN /\ idx' = idx + 1
            /\ RetryLoop("arrivals", 0, Append(trace, sleepEndEvent), timers - 1, clock')
       ELSE /\ pc' = "returned"
            /\ trace' = Append(trace, sleepEndEvent)
            /\ timers' = timers - 1
            /\ UNCHANGED <<idx, phase, attempts, ret, allFlights, inFlight,
                           currentDelayMs, lastRateLimitTime>>
    /\ UnusedByFetch

\* flightsBetweenPairs: the sleep between a source's departures and arrivals
\* is over
AdaptiveDelayElapsed ==
    /\ pc = "awaitAdaptive"
    /\ idx' = idx
    /\ clock' = clock + trace[Len(trace)].ms
    /\ RetryLoop("arrivals", 0, Append(trace, sleepEndEvent), timers - 1, clock')
    /\ UnusedByFetch

\* flightsBetweenPairs: the sleep before the next source is over
FinalDelayElapsed ==
    /\ pc = "awaitFinal"
    /\ idx' = idx + 1
    /\ clock' = clock + trace[Len(trace)].ms
    /\ RetryLoop("departures", 0, Append(trace, sleepEndEvent), timers - 1, clock')
    /\ UnusedByFetch

\* fowardLookup is called: fetchDepartures calls the underlying fetch
FowardLookupStart ==
    /\ operation = "fowardLookup"
    /\ pc = "start"
    /\ idx' = 1
    /\ phase' = "departures"
    /\ trace' = Append(trace, callEvent("departures", airports[1]))
    /\ inFlight' = inFlight + 1
    /\ pc' = "awaitFetchDepartures"
    /\ UNCHANGED <<attempts, ret, allFlights, timers, currentDelayMs,
                   lastRateLimitTime, clock>>
    /\ UnusedByFetch

\* fetchDepartures resolves: fowardLookup goes on to its analysis and returns
FetchDeparturesResolves ==
    /\ pc = "awaitFetchDepartures"
    /\ \E data \in FetchPayloads :
          /\ allFlights' = mapForward(data)
          /\ trace' = Append(trace, [type |-> "response", data |-> data])
    /\ inFlight' = inFlight - 1
    /\ pc' = "returned"
    /\ UNCHANGED <<idx, phase, attempts, ret, timers, currentDelayMs,
                   lastRateLimitTime, clock>>
    /\ UnusedByFetch

\* fetchDepartures rejects: neither it nor fowardLookup catches the error
FetchDeparturesRejects ==
    /\ pc = "awaitFetchDepartures"
    /\ \E error \in RateLimitErrors \cup OtherErrors :
          trace' = Append(trace, [type |-> "rejected", error |-> error])
    /\ inFlight' = inFlight - 1
    /\ pc' = "threw"
    /\ UNCHANGED <<idx, phase, attempts, ret, allFlights, timers, currentDelayMs,
                   lastRateLimitTime, clock>>
    /\ UnusedByFetch

NextFetch ==
    \/ FetchAllArrivalsStart
    \/ FlightsBetweenPairsStart
    \/ FetchResolves
    \/ FetchRejects
    \/ BackoffElapsed
    \/ DelayElapsed
    \/ AdaptiveDelayElapsed
    \/ FinalDelayElapsed
    \/ FowardLookupStart
    \/ FetchDeparturesResolves
    \/ FetchDeparturesRejects

SpecFetch == InitFetch /\ [][NextFetch]_vars

\* ---------------------------------------------------------------------------
\* The adaptive rate state of flights-between-pairs on its own: the module's
\* two variables, and getAdaptiveDelay and recordRateLimit called in any order
\* while time passes.

MaxTicks == 6

TickMs == 10 * 1000

\* the result of getAdaptiveDelay needs no more decimal places than are kept
representable(delay, last, t) ==
    IF t - last < RATE_LIMIT_COOLDOWN_MS
    THEN delay % 2 = 0 \/ delay + delay \div 2 >= DELAY_CAP_MS * Fraction
    ELSE delay % 10 = 0 \/ delay - delay \div 10 <= DELAY_BETWEEN_CALLS_MS * Fraction

UnusedByRateState ==
    UNCHANGED <<analysisVars, operation, airports, idx, phase, attempts,
                allFlights, trace, inFlight, timers, currentPage, total,
                scannerVars>>

InitAdaptive ==
    /\ IdleScanner
    /\ IdleAnalysis
    /\ operation = "rateState"
    /\ airports = <<>>
    /\ idx = 0
    /\ phase = "none"
    /\ pc = "loaded"
    /\ attempts = 0
    /\ ret = <<>>
    /\ allFlights = <<>>
    /\ trace = <<>>
    /\ inFlight = 0
    /\ timers = 0
    /\ currentPage = 0
    /\ total = 0
    /\ currentDelayMs = DELAY_BETWEEN_CALLS_MS * Fraction
    /\ lastRateLimitTime = 0
    /\ clock = ClockStart

GetAdaptiveDelay ==
    /\ operation = "rateState"
    /\ representable(currentDelayMs, lastRateLimitTime, clock)
    /\ currentDelayMs' = getAdaptiveDelay(currentDelayMs, lastRateLimitTime, clock)
    /\ ret' = <<currentDelayMs'>>
    /\ pc' = "getAdaptiveDelay"
    /\ UNCHANGED <<lastRateLimitTime, clock>>
    /\ UnusedByRateState

RecordRateLimit ==
    /\ operation = "rateState"
    /\ lastRateLimitTime' = clock
    /\ currentDelayMs' = recordRateLimit(currentDelayMs)
    /\ ret' = <<>>
    /\ pc' = "recordRateLimit"
    /\ UNCHANGED clock
    /\ UnusedByRateState

TimePasses ==
    /\ operation = "rateState"
    /\ clock < ClockStart + MaxTicks * TickMs
    /\ clock' = clock + TickMs
    /\ ret' = <<>>
    /\ pc' = "timePasses"
    /\ UNCHANGED <<currentDelayMs, lastRateLimitTime>>
    /\ UnusedByRateState

NextAdaptive ==
    \/ GetAdaptiveDelay
    \/ RecordRateLimit
    \/ TimePasses

SpecAdaptive == InitAdaptive /\ [][NextAdaptive]_vars

\* ---------------------------------------------------------------------------
\* The aircraft type scanner: flightsByTypes wraps one fetchFlightsByType per
\* requested type in the limiter pLimit(5) and awaits Promise.all of them.
\* The limiter runs a task at once while fewer than its limit are running,
\* queues it otherwise, and starts the head of the queue when a running task
\* settles.

MaxTypes == 3

CONCURRENCY_LIMIT == 5

TypeCodes == {"A", "B", "C"}

\* a request list longer than the limiter's limit
ManyTypes == <<"A", "B", "C", "A", "B", "C">>

\* what api.getFlights can resolve with for a type: no flight, one flight of
\* that type, or one flight the provider files under another code
FlightsOfType(type) ==
    { <<>>,
      <<[aircraftCode |-> type, distance |-> 7]>>,
      <<[aircraftCode |-> "A", distance |-> 3]>> }

\* a reference airport with coordinates, what getAirport gives for a valid code
AirportHAM == [kind |-> "Airport", latitude |-> 53, longitude |-> 10]

\* the provider's value for an invalid code
NullAirport == [kind |-> "null"]

\* airport && airport.latitude && airport.longitude: 0 is falsy as well
hasCoordinates(airport) ==
    /\ airport.kind = "Airport"
    /\ airport.latitude \notin {Undefined, 0}
    /\ airport.longitude \notin {Undefined, 0}

\* apiResponse.getDistanceFrom(a): d is the great-circle distance from the
\* flight to the airport's position; an undefined coordinate makes it NaN
distanceToAirport(d, airport) ==
    IF airport.latitude = Undefined \/ airport.longitude = Undefined
    THEN NaN
    ELSE d

RECURSIVE mapAircraft(_, _)
\* flights.map((flight) => transformToAircraftFlightEntry(flight, airports))
\* for the one-element list of airports the scanner scripts pass
mapAircraft(fl, airport) ==
    IF fl = <<>> THEN <<>>
    ELSE <<[code |-> Head(fl).aircraftCode,
            distance |-> distanceToAirport(Head(fl).distance, airport)]>>
         \o mapAircraft(Tail(fl), airport)

\* transformToAircraftFlightEntry reads the fields of each airport: with a
\* null airport the map over a non-empty list of flights throws a TypeError
fetchThrows(fl, airport) == airport.kind # "Airport" /\ fl # <<>>

\* the resolved value of fetchFlightsByType
fetchFlightsByType(fl, airport) == sortBy("distance", mapAircraft(fl, airport))

\* the entry points that run the scanner: flightsByTypes called directly, and
\* the rare-flights script, which looks up its reference airport first
ScannerOperations == {"flightsByTypes", "rareFlights"}

canStartAlways(activeCount) == TRUE

\* the limiter's test for running one more task
canStart(activeCount) == activeCount < CONCURRENCY_LIMIT

ActiveRequests == {i \in 1..Len(requests) : requests[i].state = "active"}

RECURSIVE flatMapValues(_)
\* allResults.flatMap((flights) => flights)
flatMapValues(rs) ==
    IF rs = <<>> THEN <<>> ELSE Head(rs).value \o flatMapValues(Tail(rs))

missingTypesFound(types, foundTypes) ==
    SelectSeq(types, LAMBDA type : type \in foundTypes)

\* aircraftTypes.filter((type) => !foundTypes.has(type))
missingTypes(types, foundTypes) ==
    SelectSeq(types, LAMBDA type : type \notin foundTypes)

\* new Set(results.map((flight) => flight.code))
foundTypesOf(rs) == {rs[k].code : k \in 1..Len(rs)}

\* the number of tasks the limiter runs at once out of n handed to it together
RECURSIVE startableOf(_, _)
startableOf(n, activeCount) ==
    IF n > 0 /\ canStart(activeCount)
    THEN 1 + startableOf(n - 1, activeCount + 1)
    ELSE 0

UnusedByScanner ==
    UNCHANGED <<analysisVars, airports, idx, phase, attempts, ret, allFlights,
                trace, timers, currentPage, total, currentDelayMs,
                lastRateLimitTime, clock>>

InitTypes ==
    /\ IdleAnalysis
    /\ operation = "flightsByTypes"
    /\ airports = <<>>
    /\ idx = 0
    /\ phase = "none"
    /\ pc = "start"
    /\ attempts = 0
    /\ ret = <<>>
    /\ allFlights = <<>>
    /\ trace = <<>>
    /\ inFlight = 0
    /\ timers = 0
    /\ currentPage = 0
    /\ total = 0
    /\ currentDelayMs = 0
    /\ lastRateLimitTime = 0
    /\ clock = 0
    /\ aircraftTypes \in SeqsUpTo(TypeCodes, MaxTypes) \cup {ManyTypes}
    /\ requests = <<>>
    /\ pending = <<>>
    /\ started = <<>>
    /\ results = <<>>
    /\ missing = <<>>
    /\ referenceAirport = AirportHAM
    /\ onlyToday = TRUE

\* what follows the settling of requests rs: once all of them are fulfilled,
\* the merge and the missing-type summary; until then the function stays at
\* its await
Merged(rs, allFulfilled, awaiting) ==
    LET merged == flatMapValues(rs)
    IN  /\ results' = IF allFulfilled THEN sortBy("distance", merged) ELSE results
        /\ missing' = IF allFulfilled
                      THEN missingTypes(aircraftTypes, foundTypesOf(merged))
                      ELSE missing
        /\ pc' = IF allFulfilled THEN "returned" ELSE awaiting

\* the body of flightsByTypes up to its await: every type is handed to the
\* limiter, which runs the first ones; the function then awaits Promise.all
StartRequests ==
    LET n == Len(aircraftTypes)
        k == startableOf(n, 0)
    IN  /\ requests' = [i \in 1..n |->
                           [state |-> IF i <= k THEN "active" ELSE "queued",
                            value |-> <<>>]]
        /\ started' = [i \in 1..k |-> i]
        /\ pending' = [i \in 1..(n - k) |-> k + i]
        /\ inFlight' = k
        /\ Merged(<<>>, n = 0, "awaitAll")

\* flightsByTypes is called
FlightsByTypesStart ==
    /\ operation = "flightsByTypes"
    /\ pc = "start"
    /\ StartRequests
    /\ UNCHANGED <<operation, aircraftTypes, referenceAirport, onlyToday>>
    /\ UnusedByScanner

\* the requests after request i has settled with the given state and value:
\* the limiter starts the head of its queue
AfterSettling(i, state, value) ==
    [j \in 1..Len(requests) |->
        IF j = i THEN [state |-> state, value |-> value]
        ELSE IF pending # <<>> /\ j = Head(pending)
        THEN [state |-> "active", value |-> <<>>]
        ELSE requests[j]]

NextStarted ==
    /\ started' = IF pending # <<>> THEN Append(started, Head(pending)) ELSE started
    /\ pending' = IF pending # <<>> THEN Tail(pending) ELSE pending
    /\ inFlight' = IF pending # <<>> THEN inFlight ELSE inFlight - 1

\* api.getFlights resolves for one of the running requests: its
\* fetchFlightsByType maps and sorts the flights, or throws in the map, which
\* rejects the request like a rejection of api.getFlights
GetFlightsResolves ==
    /\ operation \in ScannerOperations
    /\ \E i \in ActiveRequests : \E fl \in FlightsOfType(aircraftTypes[i]) :
          LET throws == fetchThrows(fl, referenceAirport)
              settled == IF throws
                         THEN AfterSettling(i, "rejected", <<>>)
                         ELSE AfterSettling(i, "fulfilled",
                                            fetchFlightsByType(fl, referenceAirport))
          IN  /\ requests' = settled
              /\ NextStarted
              /\ Merged(settled,
                        /\ pc = "awaitAll"
                        /\ \A j \in 1..Len(settled) : settled[j].state = "fulfilled",
                        IF throws THEN "threw" ELSE pc)
    /\ UNCHANGED <<operation, aircraftTypes, referenceAirport, onlyToday>>
    /\ UnusedByScanner

\* api.getFlights rejects for one of the running requests: Promise.all
\* rejects and flightsByTypes throws, the other requests go on
GetFlightsRejects ==
    /\ operation \in ScannerOperations
    /\ \E i \in ActiveRequests :
          /\ requests' = AfterSettling(i, "rejected", <<>>)
          /\ NextStarted
    /\ pc' = "threw"
    /\ UNCHANGED <<operation, aircraftTypes, results, missing, referenceAirport,
                   onlyToday>>
    /\ UnusedByScanner

NextTypes ==
    \/ FlightsByTypesStart
    \/ GetFlightsResolves
    \/ GetFlightsRejects

SpecTypes == InitTypes /\ [][NextTypes]_vars

\* a called function runs, and every request the provider has accepted is
\* answered at some time
SpecTypesFair == SpecTypes /\ WF_vars(NextTypes)

----------------------------------------------------------------------------
(* The entry points that look up a reference airport first:                *)
(* operations/airports-by-distance.ts and the rare-flights script           *)

\* airportsByDistance awaits fetchAirportWithCoordinates and then
\* fetchAllArrivals; the script awaits api.getAirport and then flightsByTypes.
\* fetchAllArrivals is an awaited call here: its first provider call and the
\* list it resolves with; its retries and sleeps are the acquisition run above.

EntryOperations == {"airportsByDistance", "rareFlights"}

EntryTargets == {<<>>, <<"HAM">>, <<"HAM", "CPH">>}

EntryTypes == {<<>>, <<"A">>, <<"A", "B">>}

\* what api.getAirport can resolve with: the airport, an entity whose
\* coordinates are missing, an airport on the equator, or nothing
AirportValues ==
    { AirportHAM,
      [kind |-> "Airport", latitude |-> Undefined, longitude |-> Undefined],
      [kind |-> "Airport", latitude |-> 0, longitude |-> 10],
      NullAirport }

DayMs == 24 * 60 * Minute

\* getTodayBounds, for a local time zone without offset
todayStart(t) == (t \div DayMs) * DayMs

isToday(timestamp, t) ==
    timestamp >= todayStart(t) /\ timestamp < todayStart(t) + DayMs

filterFlightsForToday(fl, t) == SelectSeq(fl, LAMBDA flight : isToday(flight.time, t))

ArrivalEntries ==
    [time : {40 * Minute, DayMs + 40 * Minute}, target : {"HAM"},
     origin : OriginCodes, coordinates : {[latitude |-> 48], NoCoordinates}]

\* what fetchAllArrivals can resolve with
Arrivals == SeqsUpTo(ArrivalEntries, MaxRankLen)

\* lines 311-322: the airport when it is truthy with truthy coordinates,
\* null otherwise
fetchAirportWithCoordinates(airport) ==
    IF hasCoordinates(airport) THEN airport ELSE NullAirport

getAirportEvent == [type |-> "getAirport"]

UnusedByEntry ==
    UNCHANGED <<direction, flights, now, op, getKey, windows, diversity, raw,
                entry, operation, airports, idx, phase, attempts, ret, timers,
                currentPage, total, currentDelayMs, lastRateLimitTime, clock,
                aircraftTypes, onlyToday>>

InitEntry ==
    /\ IdleAnalysis
    /\ operation \in EntryOperations
    /\ airports \in EntryTargets
    /\ operation = "rareFlights" => airports = <<>>
    /\ idx = 0
    /\ phase = "none"
    /\ pc = "start"
    /\ attempts = 0
    /\ ret = <<>>
    /\ allFlights = <<>>
    /\ trace = <<>>
    /\ inFlight = 0
    /\ timers = 0
    /\ currentPage = 0
    /\ total = 0
    /\ currentDelayMs = 0
    /\ lastRateLimitTime = 0
    /\ clock = 0
    /\ aircraftTypes \in EntryTypes
    /\ operation = "airportsByDistance" => aircraftTypes = <<>>
    /\ requests = <<>>
    /\ pending = <<>>
    /\ started = <<>>
    /\ results = <<>>
    /\ missing = <<>>
    /\ referenceAirport = [kind |-> "none"]
    /\ onlyToday \in BOOLEAN
    /\ operation = "rareFlights" => onlyToday = TRUE

\* the entry point is called: the provider is asked for the reference airport
EntryStart ==
    /\ operation \in EntryOperations
    /\ pc = "start"
    /\ trace' = Append(trace, getAirportEvent)
    /\ inFlight' = inFlight + 1
    /\ pc' = "awaitAirport"
    /\ UNCHANGED <<allFlights, ranking, referenceAirport, requests, pending,
                   started, results, missing>>
    /\ UnusedByEntry

\* api.getAirport resolves.  airportsByDistance returns when
\* fetchAirportWithCoordinates gave null and calls fetchAllArrivals otherwise,
\* which returns the empty list at once for no target; the script hands the
\* value to flightsByTypes as it is.
GetAirportResolves ==
    /\ operation \in EntryOperations
    /\ pc = "awaitAirport"
    /\ \E airport \in AirportValues :
          LET answered == Append(trace, [type |-> "airport", data |-> airport])
              originAirport == fetchAirportWithCoordinates(airport)
          IN  IF operation = "airportsByDistance"
              THEN /\ referenceAirport' = originAirport
                   /\ inFlight' = IF originAirport # NullAirport /\ airports # <<>>
                                  THEN inFlight
                                  ELSE inFlight - 1
                   /\ trace' = IF originAirport # NullAirport /\ airports # <<>>
                               THEN Append(answered, callEvent("arrivals", airports[1]))
                               ELSE answered
                   /\ pc' = IF originAirport = NullAirport THEN "aborted"
                            ELSE IF airports = <<>> THEN "returned"
                            ELSE "awaitArrivals"
                   /\ UNCHANGED <<allFlights, ranking, requests, pending, started,
                                  results, missing>>
              ELSE /\ referenceAirport' = airport
                   /\ trace' = answered
                   /\ StartRequests
                   /\ UNCHANGED <<allFlights, ranking>>
    /\ UnusedByEntry

\* api.getAirport rejects: fetchAirportWithCoordinates catches the error and
\* gives null; the script's top-level await throws
GetAirportRejects ==
    /\ operation \in EntryOperations
    /\ pc = "awaitAirport"
    /\ \E error \in OtherErrors :
          trace' = Append(trace, [type |-> "rejected", error |-> error])
    /\ inFlight' = inFlight - 1
    /\ referenceAirport' = IF operation = "airportsByDistance"
                           THEN NullAirport
                           ELSE referenceAirport
    /\ pc' = IF operation = "airportsByDistance" THEN "aborted" ELSE "threw"
    /\ UNCHANGED <<allFlights, ranking, requests, pending, started, results,
                   missing>>
    /\ UnusedByEntry

\* fetchAllArrivals resolves: airportsByDistance filters, groups and ranks
FetchAllArrivalsResolves ==
    /\ operation = "airportsByDistance"
    /\ pc = "awaitArrivals"
    /\ \E fl \in Arrivals :
          LET today == IF onlyToday THEN filterFlightsForToday(fl, clock) ELSE fl
          IN  /\ allFlights' = today
              /\ ranking' = analyzeAirportsByDistance(groupFlightsByOrigin(today),
                                                      referenceAirport)
              /\ trace' = Append(trace, [type |-> "arrivals", data |-> fl])
    /\ inFlight' = inFlight - 1
    /\ pc' = "returned"
    /\ UNCHANGED <<referenceAirport, requests, pending, started, results, missing>>
    /\ UnusedByEntry

NextEntry ==
    \/ EntryStart
    \/ GetAirportResolves
    \/ GetAirportRejects
    \/ FetchAllArrivalsResolves
    \/ GetFlightsResolves
    \/ GetFlightsRejects

SpecEntry == InitEntry /\ [][NextEntry]_vars

\* ---------------------------------------------------------------------------
\* Reference notions for the pagination claims

IsPaging == operation \in PageVariants

EventsOfType(ty) == {i \in 1..Len(trace) : trace[i].type = ty}

RECURSIVE selectType(_, _)
selectType(tr, ty) ==
    IF tr = <<>> THEN <<>>
    ELSE IF Head(tr).type = ty THEN <<Head(tr)>> \o selectType(Tail(tr), ty)
    ELSE selectType(Tail(tr), ty)

Requests == selectType(trace, "request")

Responses == selectType(trace, "response")

RECURSIVE concatPayloads(_)
concatPayloads(rs) ==
    IF rs = <<>> THEN <<>>
    ELSE flightsOfData(Head(rs).data) \o concatPayloads(Tail(rs))

\* C17: getDepartures requests pages 0, 1, 2, ... one at a time, goes on
\* exactly while the page index is at most the total last reported, makes N+1
\* requests (pages 0..N) when the provider always reports N, and returns the
\* pages' flights concatenated in request order.
C17_PagesInOrder ==
    IsPaging =>
        /\ inFlight <= 1
        /\ \A k \in 1..Len(Requests) : Requests[k].page = k - 1
        /\ \A k \in 1..Len(Responses) :
               (k < Len(Requests)) <=> (k <= Responses[k].total)
        /\ pc = "returned" =>
               /\ Len(Requests) = Len(Responses)
               /\ Len(Requests) > total
               /\ allFlights = concatPayloads(Responses)
               /\ \A n \in 0..MaxTotal :
                      (\A k \in 1..Len(Responses) : Responses[k].total = n) =>
                          Len(Requests) = n + 1

C17_Witness ==
    /\ IsPaging
    /\ pc = "returned"
    /\ Len(Requests) = 3
    /\ \A k \in 1..Len(Responses) : Responses[k].total = 2
    /\ Len(allFlights) = 4
    /\ allFlights[1].page = 0
    /\ allFlights[4].page = 2

\* C18: in the hardened variant the request for page k+1 is issued only after
\* the sleep started after page k has completed.
C18_SleepBetweenPages ==
    operation = "getDeparturesHardened" =>
        \A i \in 1..Len(trace) :
            (trace[i].type = "request" /\ trace[i].page >= 1) =>
                Cardinality({j \in 1..(i - 1) : trace[j].type = "sleepEnd"}) >= trace[i].page

\* ---------------------------------------------------------------------------
\* Reference notions for the retry claims.  A wrapper invocation is the stretch
\* of the trace after the previous "return" event up to its own.

IsWrapperOp == operation \in {"fetchAllArrivals", "flightsBetweenPairs"}

LastReturnBefore(i) == MaxOf({j \in 1..(i - 1) : trace[j].type = "return"})

\* the number of calls of the underlying fetch the invocation has made by i
AttemptAt(i) ==
    Cardinality({j \in (LastReturnBefore(i) + 1)..i : trace[j].type = "call"})

IsRateLimited(i) ==
    trace[i].type = "rejected" /\ trace[i].error \in RateLimitErrors

IsOtherFailure(i) ==
    trace[i].type = "rejected" /\ trace[i].error \notin RateLimitErrors

C13_NonRetryable ==
    IsWrapperOp =>
        \A i \in 1..Len(trace) :
            IsOtherFailure(i) =>
                /\ i < Len(trace)
                /\ trace[i + 1] =
                       returnEvent(trace[i - 1].fetch, trace[i - 1].airport, <<>>)

C13_Witness ==
    /\ IsWrapperOp
    /\ \E i \in 1..(Len(trace) - 1) :
          /\ IsOtherFailure(i)
          /\ AttemptAt(i) = 2
          /\ trace[i + 1].type = "return"
          /\ trace[i + 1].value = <<>>
    /\ ret = <<>>

\* C14: a wrapper invocation whose MAX_RETRY_ATTEMPTS calls all fail with 429
\* ends by returning an empty list without a further call, every invocation
\* that does not end on a success returns an empty list, and no wrapper ever
\* throws to its caller.
C14_ExhaustionReturnsEmpty ==
    IsWrapperOp =>
        /\ pc # "threw"
        /\ \A i \in 1..Len(trace) :
               /\ (IsRateLimited(i) /\ AttemptAt(i) = MAX_RETRY_ATTEMPTS
                   /\ i + 2 < Len(trace)) =>
                      trace[i + 3] =
                          returnEvent(trace[i - 1].fetch, trace[i - 1].airport, <<>>)
               /\ (trace[i].type = "return" /\ trace[i - 1].type # "response") =>
                      trace[i].value = <<>>
               /\ (trace[i].type = "call" /\ AttemptAt(i) > 1) =>
                      /\ IsRateLimited(i - 3)
                      /\ AttemptAt(i - 3) < MAX_RETRY_ATTEMPTS

C14_Witness ==
    /\ IsWrapperOp
    /\ \E i \in 1..(Len(trace) - 3) :
          /\ IsRateLimited(i)
          /\ AttemptAt(i) = MAX_RETRY_ATTEMPTS
          /\ trace[i + 3].type = "return"
          /\ trace[i + 3].value = <<>>
    /\ pc = "returned"

Returns == selectType(trace, "return")

RECURSIVE concatValues(_)
concatValues(rs) ==
    IF rs = <<>> THEN <<>> ELSE Head(rs).value \o concatValues(Tail(rs))

ReturnsBefore(i) == Cardinality({j \in 1..(i - 1) : trace[j].type = "return"})

\* the events between the k-th airport's first call and its wrapper's return
EventsOfAirport(k) ==
    {i \in 1..Len(trace) :
        ReturnsBefore(i) = k - 1 /\ trace[i].type \in {"call", "rejected"}}

\* C15: fetchAllArrivals has at most one request in flight, fetches the
\* airports in list order, lets exactly one DELAY_BETWEEN_CALLS_MS sleep follow
\* every airport whatever its outcome before anything else happens, gives every
\* airport its own retry budget, and returns the per-airport results
\* concatenated in airport order.
C15_SequentialBatch ==
    operation = "fetchAllArrivals" =>
        /\ inFlight <= 1
        /\ \A i \in 1..Len(trace) :
               /\ trace[i].type = "call" =>
                      /\ ReturnsBefore(i) < Len(airports)
                      /\ trace[i].airport = airports[ReturnsBefore(i) + 1]
               /\ trace[i].type = "return" =>
                      /\ trace[i].airport = airports[ReturnsBefore(i) + 1]
                      /\ i < Len(trace)
                      /\ trace[i + 1] = [type |-> "sleepStart", ms |-> DELAY_BETWEEN_CALLS_MS]
                      /\ i + 1 < Len(trace) => trace[i + 2].type = "sleepEnd"
                      /\ i + 2 < Len(trace) =>
                             /\ trace[i + 3].type = "call"
                             /\ AttemptAt(i + 3) = 1
        /\ \A k \in 1..Len(Returns) :
               LET calls == {i \in EventsOfAirport(k) : trace[i].type = "call"}
                   limited == {i \in EventsOfAirport(k) : IsRateLimited(i)}
               IN  Cardinality(calls) =
                       Min(MAX_RETRY_ATTEMPTS, Cardinality(limited) + 1)
        /\ allFlights = concatValues(Returns)
        /\ pc = "returned" => Len(Returns) = Len(airports)

C15_Witness ==
    /\ operation = "fetchAllArrivals"
    /\ pc = "returned"
    /\ Len(airports) = 2
    /\ Len(Returns) = 2
    /\ Cardinality({i \in EventsOfAirport(1) : IsRateLimited(i)}) = 3
    /\ Cardinality({i \in EventsOfAirport(2) : IsRateLimited(i)}) = 2
    /\ Cardinality({i \in EventsOfAirport(2) : trace[i].type = "call"}) = 3
    /\ Returns[1].value = <<>>
    /\ Len(Returns[2].value) = 2
    /\ allFlights = Returns[2].value

\* C16: on no acquisition path does a provider error that is not a rate-limit
\* signal end the operation with an exception.
C16_FailureNeverThrows ==
    operation \in FetchOperations =>
        \A i \in 1..Len(trace) : IsOtherFailure(i) => pc # "threw"

\* C19: in flightsBetweenPairs, when the provider answered 429 during the
\* fetch that has just ended, the rate state has been updated by the time the
\* next adaptive delay is taken: a rate limit is on record and the delay is
\* longer than the floor.
C19_RateLimitRecorded ==
    (operation = "flightsBetweenPairs" /\ pc \in {"awaitAdaptive", "awaitFinal"}) =>
        LET returned == Len(trace) - 1
        IN  (\E i \in (LastReturnBefore(returned) + 1)..returned : IsRateLimited(i)) =>
                /\ lastRateLimitTime # 0
                /\ currentDelayMs > DELAY_BETWEEN_CALLS_MS * Fraction
                /\ trace[Len(trace)].ms > DELAY_BETWEEN_CALLS_MS

\* C20: a call of getAdaptiveDelay within 30000 ms of the last recorded rate
\* limit sets currentDelayMs to 1.5 times its value, at most 10000; a later
\* call sets it to 0.9 times its value, at least DELAY_BETWEEN_CALLS_MS; the
\* call returns the new value; and as long as no rate limit has been recorded
\* the delay stays at the floor it starts at.
C20_AdaptiveDelayRule ==
    /\ [](operation = "rateState" /\ lastRateLimitTime = 0 =>
              currentDelayMs = DELAY_BETWEEN_CALLS_MS * Fraction)
    /\ [][(operation = "rateState" /\ pc' = "getAdaptiveDelay") =>
              /\ ret' = <<currentDelayMs'>>
              /\ IF clock - lastRateLimitTime < 30000
                 THEN IF currentDelayMs + currentDelayMs \div 2 >= 10000 * Fraction
                      THEN currentDelayMs' = 10000 * Fraction
                      ELSE 2 * (currentDelayMs' - currentDelayMs) = currentDelayMs
                 ELSE IF currentDelayMs - currentDelayMs \div 10
                             <= DELAY_BETWEEN_CALLS_MS * Fraction
                      THEN currentDelayMs' = DELAY_BETWEEN_CALLS_MS * Fraction
                      ELSE 10 * (currentDelayMs - currentDelayMs') = currentDelayMs]_vars

C20_Witness ==
    /\ operation = "rateState"
    /\ pc = "getAdaptiveDelay"
    /\ lastRateLimitTime = ClockStart
    /\ clock = ClockStart + 30000
    /\ currentDelayMs = 5400 * Fraction
    /\ ret = <<currentDelayMs>>

\* ---------------------------------------------------------------------------
\* Reference notions for the ranking claims, stated on the input list itself

\* the origin codes that get a group of their own name
RealOrigins == {flights[i].origin : i \in 1..Len(flights)} \ {NoKey}

MembersOf(code) == {i \in 1..Len(flights) : flights[i].origin = code}

RankedCodes == {ranking[k].code : k \in 1..Len(ranking)}

\* C21: the distance ranking is in ascending order of distance, has at most
\* one record per origin code, and each record's flightCount is the number of
\* input entries with that origin.
C21_DistanceOrder ==
    op = "analyzeAirportsByDistance" =>
        /\ \A j, k \in 1..Len(ranking) :
               j < k => ranking[j].distance <= ranking[k].distance
        /\ \A j, k \in 1..Len(ranking) :
               ranking[j].code = ranking[k].code => j = k
        /\ \A k \in 1..Len(ranking) :
               ranking[k].flightCount = Cardinality(MembersOf(ranking[k].code))

C21_Witness ==
    /\ op = "analyzeAirportsByDistance"
    /\ Len(ranking) = 3
    /\ ranking[1].distance < ranking[3].distance
    /\ ranking[1].code = "CDG"
    /\ flights[1].origin = "FRA"

\* C22: the distance ranking has a record for an origin exactly when the
\* origin is known and at least one of its entries has coordinates, also when
\* the first of them has none.
C22_RankedIffCoordinates ==
    op = "analyzeAirportsByDistance" =>
        \A code \in RealOrigins \cup {"UNKNOWN"} :
            code \in RankedCodes <=>
                /\ code # "UNKNOWN"
                /\ \E i \in MembersOf(code) : flights[i].coordinates # NoCoordinates

IsScanning == operation = "flightsByTypes"

\* the aircraft codes of the flights the provider returned
ObservedCodes ==
    UNION { {requests[i].value[k].code : k \in 1..Len(requests[i].value)} :
            i \in 1..Len(requests) }

UnobservedPositions ==
    {i \in 1..Len(aircraftTypes) : aircraftTypes[i] \notin ObservedCodes}

\* C25: when the scanner has merged the results, the missing list consists of
\* the requested types no fetched flight carries, in request order; it is
\* <<B>> for the request A, B, C with A and C observed, and it is empty
\* exactly when every requested type was observed.
C25_MissingTypes ==
    (IsScanning /\ pc = "returned") =>
        /\ Len(missing) = Cardinality(UnobservedPositions)
        /\ \A k \in 1..Len(missing) :
               \E i \in UnobservedPositions :
                   /\ Cardinality({j \in UnobservedPositions : j < i}) = k - 1
                   /\ missing[k] = aircraftTypes[i]
        /\ (aircraftTypes = <<"A", "B", "C">> /\ ObservedCodes = {"A", "C"}) =>
               missing = <<"B">>
        /\ missing = <<>> <=>
               \A i \in 1..Len(aircraftTypes) : aircraftTypes[i] \in ObservedCodes

C25_Witness ==
    /\ IsScanning
    /\ pc = "returned"
    /\ aircraftTypes = <<"A", "B", "C">>
    /\ ObservedCodes = {"A", "C"}
    /\ missing = <<"B">>

SettledRequests ==
    {i \in 1..Len(requests) : requests[i].state \in {"fulfilled", "rejected"}}

IsEntry == operation \in EntryOperations

\* the provider gave no usable reference airport: getAirport threw, or gave
\* a falsy value or an entity without coordinates
ReferenceMissing ==
    \E k \in 1..Len(trace) :
        \/ trace[k].type = "rejected"
        \/ /\ trace[k].type = "airport"
           /\ \/ trace[k].data.kind # "Airport"
              \/ trace[k].data.latitude = Undefined
              \/ trace[k].data.longitude = Undefined

\* a schedule fetch or a live-flight fetch was issued
FetchIssued ==
    \/ \E k \in 1..Len(trace) : trace[k].type = "call"
    \/ started # <<>>

\* a distance was computed against missing coordinates
DistanceAgainstMissing ==
    \/ \E k \in 1..Len(results) : results[k].distance = NaN
    \/ \E i \in 1..Len(requests) :
           \E k \in 1..Len(requests[i].value) : requests[i].value[k].distance = NaN
    \/ \E k \in 1..Len(ranking) : ranking[k].distance = NaN

\* C27: at an entry point that needs a reference airport, once getAirport has
\* thrown or given a falsy value or an entity without coordinates, no
\* schedule or live-flight fetch is issued, the operation awaits none, and no
\* distance is computed against the missing coordinates.
C27_AbortsWithoutReference ==
    (IsEntry /\ ReferenceMissing) =>
        /\ ~FetchIssued
        /\ pc \notin {"awaitArrivals", "awaitAll"}
        /\ ~DistanceAgainstMissing

\* the positions of the input whose time lies in the closed interval of w
InIntervalOf(w) ==
    {q \in 1..Len(flights) : flights[q].time >= w.start /\ flights[q].time <= w.end}

\* C28: every returned window ends 30 minutes after its start, holds every
\* input entry whose time lies in [start, end], the entries sharing the
\* start's timestamp included, holds no entry outside [start, end], and lists
\* its members in non-decreasing time order.
C28_WindowHoldsInterval ==
    IsWindowOp =>
        \A k \in 1..Len(windows) :
            LET w == windows[k]
            IN  /\ w.end = w.start + WINDOW_SIZE_MS
                /\ \A q \in InIntervalOf(w) : flights[q] \in Members(w)
                /\ \A e \in Members(w) : e.time >= w.start /\ e.time <= w.end
                /\ \A i, j \in 1..Len(w.flights) :
                       i <= j => w.flights[i].time <= w.flights[j].time

\* the backoff sleeps the invocation has started by i: the sleeps that follow
\* a rate-limited call
BackoffSleepsAt(i) ==
    Cardinality({j \in (LastReturnBefore(i) + 2)..i :
                    trace[j].type = "sleepStart" /\ IsRateLimited(j - 1)})

\* C29: in the retry wrappers a backoff sleep follows only a rate-limited call
\* that was not the MAX_RETRY_ATTEMPTS-th of its invocation, and the event after
\* the end of the sleep is another call of the underlying fetch; an invocation
\* that returns after MAX_RETRY_ATTEMPTS failed calls has slept
\* MAX_RETRY_ATTEMPTS - 1 times.
C29_NoSleepAfterFinalAttempt ==
    IsWrapperOp =>
        \A i \in 1..Len(trace) :
            /\ (IsRateLimited(i) /\ i < Len(trace) /\ trace[i + 1].type = "sleepStart") =>
                   /\ AttemptAt(i) < MAX_RETRY_ATTEMPTS
                   /\ i + 3 <= Len(trace) => trace[i + 3].type = "call"
            /\ (trace[i].type = "return" /\ AttemptAt(i) = MAX_RETRY_ATTEMPTS
                    /\ trace[i].value = <<>>
                    /\ \A j \in (LastReturnBefore(i) + 1)..i : trace[j].type # "response") =>
                   BackoffSleepsAt(i) = MAX_RETRY_ATTEMPTS - 1

\* C30: whatever getAdaptiveDelay and recordRateLimit calls are made at
\* whatever times, currentDelayMs stays between DELAY_BETWEEN_CALLS_MS and
\* 10000 ms, and lastRateLimitTime never decreases.
C30_DelayBounds ==
    /\ [](operation = "rateState" =>
              /\ currentDelayMs >= DELAY_BETWEEN_CALLS_MS * Fraction
              /\ currentDelayMs <= 10000 * Fraction)
    /\ [][operation = "rateState" => lastRateLimitTime' >= lastRateLimitTime]_vars

C30_Witness ==
    /\ operation = "rateState"
    /\ pc = "recordRateLimit"
    /\ currentDelayMs = 10000 * Fraction
    /\ lastRateLimitTime > ClockStart
    /\ lastRateLimitTime = clock

====
